---- MODULE Spec2Model ----
(***************************************************************************)
(* TerminalImageViewer (src/src/tiv.cpp): the block-to-glyph quantization  *)
(* engine.  A 32-bit word is modelled by the set of its set bit positions  *)
(* (0 = least significant, 31 = most significant), so that xor, complement *)
(* and population count are set operations.  A colour packed by the code   *)
(* into a long, (r << 16) | (g << 8) | b, is the integer of that value.    *)
(***************************************************************************)
EXTENDS Integers, FiniteSets, Sequences, TLC

VARIABLES
  image,              \* the CImg passed to printImage: [w, h, pix]
  flags,              \* the set of FLAG_* bits that are set
  x, y,               \* printImage's loop variables (top-left of the block)
  lastCharData,       \* printImage's lastCharData
  charData,           \* printImage's charData of the current block
  out,                \* what has been written to std::cout, as tokens
  pc,                 \* position in the code
  min, max,           \* findCharData: per-channel minimum and maximum
  count_per_color,    \* findCharData: std::map<long,int>
  count2,             \* findCharData
  max_count_color_1,  \* findCharData
  max_count_color_2,  \* findCharData
  direct,             \* findCharData
  bits,               \* findCharData: the coverage mask
  i,                  \* findCharData: index into BITMAPS of the search loop
  best_diff,          \* findCharData
  best_pattern,       \* findCharData
  codepoint,          \* findCharData
  inverted,           \* findCharData
  rgb,                \* emitTermColor: its parameters <<r, g, b>>
  escape,             \* emitTermColor: the escape sequence returned
  fp,                 \* what the build's floating point makes of exact ties
  cells,              \* history: the blocks processed, with their CharData
  reads               \* history: the pixel coordinates read from the image

vars ==
  <<image, flags, x, y, lastCharData, charData, out, pc, min, max,
    count_per_color, count2, max_count_color_1, max_count_color_2, direct,
    bits, i, best_diff, best_pattern, codepoint, inverted, rgb,
    escape, fp, cells, reads>>

imageVars == <<image, x, y, lastCharData, charData, out, cells, reads>>

analysisVars ==
  <<min, max, count_per_color, count2, max_count_color_1,
    max_count_color_2, direct>>

searchVars == <<i, best_diff, best_pattern, codepoint, inverted>>

colorVars == <<rgb, escape>>

\* ------------------------------------------------------------------------
\* Flags (tiv.cpp:89-94); a flags value is modelled by the set of its bits.

FLAG_FG == 1

FLAG_BG == 2

FLAG_MODE_256 == 4

FLAG_24BIT == 8

FLAG_NOOPT == 16

FLAG_TELETEXT == 32

\* ------------------------------------------------------------------------
\* 32-bit words as sets of bit positions.

\* The word 0x<hi><lo>, given as its two 16-bit halves.
W(hi, lo) ==
  {k \in 0..31 :
     IF k < 16 THEN (lo \div (2^k)) % 2 = 1
               ELSE (hi \div (2^(k - 16))) % 2 = 1}

\* a ^ b
Xor(a, c) == (a \ c) \cup (c \ a)

\* ~a
Not(a) == (0..31) \ a

\* std::bitset<32>(a).count()
count(a) == Cardinality(a)

\* ------------------------------------------------------------------------
\* The glyph dictionary, interleaved as in the source: pattern, code point.

BITMAPS ==
  <<
    W(\H0000, \H0000), \H00a0, W(\H0000, \H000f), \H2581,
    W(\H0000, \H00ff), \H2582, W(\H0000, \H0fff), \H2583,
    W(\H0000, \Hffff), \H2584, W(\H000f, \Hffff), \H2585,
    W(\H00ff, \Hffff), \H2586, W(\H0fff, \Hffff), \H2587,
    W(\Heeee, \Heeee), \H258a, W(\Hcccc, \Hcccc), \H258c,
    W(\H8888, \H8888), \H258e, W(\H0000, \Hcccc), \H2596,
    W(\H0000, \H3333), \H2597, W(\Hcccc, \H0000), \H2598,
    W(\Hcccc, \H3333), \H259a, W(\H3333, \H0000), \H259d,
    W(\H000f, \Hf000), \H2501, W(\H6666, \H6666), \H2503,
    W(\H0007, \H7666), \H250f, W(\H000e, \He666), \H2513,
    W(\H6667, \H7000), \H2517, W(\H666e, \He000), \H251b,
    W(\H6667, \H7666), \H2523, W(\H666e, \He666), \H252b,
    W(\H000f, \Hf666), \H2533, W(\H666f, \Hf000), \H253b,
    W(\H666f, \Hf666), \H254b, W(\H000c, \Hc000), \H2578,
    W(\H0006, \H6000), \H2579, W(\H0003, \H3000), \H257a,
    W(\H0006, \H6000), \H257b, W(\H0660, \H0660), \H254f,
    W(\H000f, \H0000), \H2500, W(\H0000, \Hf000), \H2500,
    W(\H4444, \H4444), \H2502, W(\H2222, \H2222), \H2502,
    W(\H000e, \H0000), \H2574, W(\H0000, \He000), \H2574,
    W(\H4444, \H0000), \H2575, W(\H2222, \H0000), \H2575,
    W(\H0003, \H0000), \H2576, W(\H0000, \H3000), \H2576,
    W(\H0000, \H4444), \H2577, W(\H0000, \H2222), \H2577,
    W(\H4444, \H4444), \H23a2, W(\H2222, \H2222), \H23a5,
    W(\H0f00, \H0000), \H23ba, W(\H00f0, \H0000), \H23bb,
    W(\H0000, \H0f00), \H23bc, W(\H0000, \H00f0), \H23bd,
    W(\H0006, \H6000), \H25aa, W(\H0000, \H0000), \H0000,
    W(\Hccc0, \H0000), \Hfb00, W(\H3330, \H0000), \Hfb01,
    W(\Hfff0, \H0000), \Hfb02, W(\H000c, \Hc000), \Hfb03,
    W(\Hcccc, \Hc000), \Hfb04, W(\H333c, \Hc000), \Hfb05,
    W(\Hfffc, \Hc000), \Hfb06, W(\H0003, \H3000), \Hfb07,
    W(\Hccc3, \H3000), \Hfb08, W(\H3333, \H3000), \Hfb09,
    W(\Hfff3, \H3000), \Hfb0a, W(\H000f, \Hf000), \Hfb0b,
    W(\Hcccf, \Hf000), \Hfb0c, W(\H333f, \Hf000), \Hfb0d,
    W(\Hffff, \Hf000), \Hfb0e, W(\H0000, \H0ccc), \Hfb0f,
    W(\Hccc0, \H0ccc), \Hfb10, W(\H3330, \H0ccc), \Hfb11,
    W(\Hfff0, \H0ccc), \Hfb12, W(\H000c, \Hcccc), \Hfb13,
    W(\H333c, \Hcccc), \Hfb14, W(\Hfffc, \Hcccc), \Hfb15,
    W(\H0003, \H3ccc), \Hfb16, W(\Hccc3, \H3ccc), \Hfb17,
    W(\H3333, \H3ccc), \Hfb18, W(\Hfff3, \H3ccc), \Hfb19,
    W(\H000f, \Hfccc), \Hfb1a, W(\Hcccf, \Hfccc), \Hfb1b,
    W(\H333f, \Hfccc), \Hfb1c, W(\Hffff, \Hfccc), \Hfb1d,
    W(\H0000, \H0333), \Hfb1e, W(\Hccc0, \H0333), \Hfb1f,
    W(\H3330, \H0333), \H1b20, W(\Hfff0, \H0333), \H1b21,
    W(\H000c, \Hc333), \H1b22, W(\Hcccc, \Hc333), \H1b23,
    W(\H333c, \Hc333), \H1b24, W(\Hfffc, \Hc333), \H1b25,
    W(\H0003, \H3333), \H1b26, W(\Hccc3, \H3333), \H1b27,
    W(\Hfff3, \H3333), \H1b28, W(\H000f, \Hf333), \H1b29,
    W(\Hcccf, \Hf333), \H1b2a, W(\H333f, \Hf333), \H1b2b,
    W(\Hffff, \Hf333), \H1b2c, W(\H0000, \H0fff), \H1b2d,
    W(\Hccc0, \H0fff), \H1b2e, W(\H3330, \H0fff), \H1b2f,
    W(\Hfff0, \H0fff), \H1b30, W(\H000c, \Hcfff), \H1b31,
    W(\Hcccc, \Hcfff), \H1b32, W(\H333c, \Hcfff), \H1b33,
    W(\Hfffc, \Hcfff), \H1b34, W(\H0003, \H3fff), \H1b35,
    W(\Hccc3, \H3fff), \H1b36, W(\H3333, \H3fff), \H1b37,
    W(\Hfff3, \H3fff), \H1b38, W(\H000f, \Hffff), \H1b39,
    W(\Hcccf, \Hffff), \H1b3a, W(\H333f, \Hffff), \H1b3b,
    W(\H0000, \H0000), \H0001
  >>

\* BITMAPS[n] with the source's 0-based index.
At(n) == BITMAPS[n + 1]

\* sizeof(BITMAPS) / sizeof(BITMAPS[0])
BITMAPS_SIZE == Len(BITMAPS)

\* ------------------------------------------------------------------------
\* findCharData, the glyph search (tiv.cpp:374-397).

\* unsigned int end_marker = flags & FLAG_TELETEXT ? 1 : 0;
end_marker_NoTeletextCheck(fl) == 1

end_marker(fl) == IF FLAG_TELETEXT \in fl THEN 1 ELSE 0

\* The locals of the search as initialised before the loop (tiv.cpp:376-379).
SearchInit_ZeroCodepoint ==
  [best_diff |-> 8, best_pattern |-> W(\H0000, \H0000), codepoint |-> 0,
   inverted |-> FALSE]

SearchInit ==
  [best_diff |-> 8, best_pattern |-> W(\H0000, \Hffff), codepoint |-> \H2584,
   inverted |-> FALSE]

\* One pass of the inner loop (tiv.cpp:388-394) for entry n, comparing m
\* (the mask) with pattern, which is BITMAPS[n] or its complement.
Compare(st, n, pattern, m) ==
  LET diff == count(Xor(pattern, m))
  IN  IF diff < st.best_diff
      THEN [best_diff |-> diff, best_pattern |-> At(n),
            codepoint |-> At(n + 1), inverted |-> At(n) # pattern]
      ELSE st

\* The body of the outer loop for a non-marker entry n (tiv.cpp:386-396):
\* j = 0 compares the pattern, j = 1 its complement.
SearchBody_NoComplement(st, n, m) == Compare(st, n, At(n), m)

SearchBody(st, n, m) ==
  Compare(Compare(st, n, At(n), m), n, Not(At(n)), m)

\* The index of the first entry whose code point is the end marker e.
MarkerIndex(e) ==
  CHOOSE n \in 0..(BITMAPS_SIZE - 2) :
    /\ n % 2 = 0
    /\ At(n + 1) = e
    /\ \A k \in 0..(n - 1) : k % 2 = 0 => At(k + 1) # e

\* The indices of the end markers 0 and 1.
MarkerIndices == <<MarkerIndex(0), MarkerIndex(1)>>

\* The index at which the loop ends: the first n with
\* BITMAPS[n + 1] == end_marker (tiv.cpp:381).
LoopEnd(fl) == MarkerIndices[end_marker(fl) + 1]

\* The values the locals of the search can take.
SearchStates ==
  [best_diff : 0..32, best_pattern : SUBSET (0..31), codepoint : Nat,
   inverted : BOOLEAN]

\* The whole loop (tiv.cpp:381-397), entered with the locals st0 at index n0.
\* iter[st, lo, hi] is the locals after the iterations for i = lo, lo + 2,
\* ..., hi in this order, entered with the locals st: an end marker is
\* skipped, every other entry is compared.  The iterations of lo..hi are
\* those of lo..mid followed by those of mid + 2..hi.
SearchLoop(st0, n0, m, fl) ==
  LET iter[st \in SearchStates, lo \in 0..BITMAPS_SIZE, hi \in 0..BITMAPS_SIZE] ==
        IF lo = hi
        THEN IF At(lo + 1) < 32 THEN st ELSE SearchBody(st, lo, m)
        ELSE LET mid == lo + 2 * ((hi - lo) \div 4)
             IN  iter[iter[st, lo, mid], mid + 2, hi]
  IN  IF n0 >= LoopEnd(fl) THEN st0 ELSE iter[st0, n0, LoopEnd(fl) - 2]

\* The search of findCharData for mask m under flags fl.
Search(m, fl) == SearchLoop(SearchInit, 0, m, fl)

\* ------------------------------------------------------------------------
\* The image and its blocks.

\* image.width(), image.height()
width(img) == img.w

height(img) == img.h

\* image(px, py, 0, c): channel c (0, 1, 2) of the pixel at <<px, py>>.  CImg
\* does no bounds check; what a read outside the image returns is left
\* unspecified.
Pixel(img, px, py, c) ==
  IF px \in 0..(img.w - 1) /\ py \in 0..(img.h - 1)
  THEN img.pix[<<px, py>>][c + 1]
  ELSE CHOOSE d \in 0..255 : TRUE

\* The pixels of a block in the order of the loops "for y < 8, for x < 4":
\* pixel p of 0..31 is at <<x0 + p % 4, y0 + p \div 4>>.
BlockX(x0, p) == x0 + (p % 4)

BlockY(y0, p) == y0 + (p \div 4)

\* The coordinates those loops read.
BlockCoords(x0, y0) == {<<BlockX(x0, p), BlockY(y0, p)>> : p \in 0..31}

\* The three channels of pixel p of the block at <<x0, y0>>.
BlockPixel(img, x0, y0, p) ==
  <<Pixel(img, BlockX(x0, p), BlockY(y0, p), 0),
    Pixel(img, BlockX(x0, p), BlockY(y0, p), 1),
    Pixel(img, BlockX(x0, p), BlockY(y0, p), 2)>>

BlockPixels(img, x0, y0) == [p \in 0..31 |-> BlockPixel(img, x0, y0, p)]

\* color = (color << 8) | d over the three channels (tiv.cpp:299-306).
Pack(c) == c[1] * 65536 + c[2] * 256 + c[3]

\* (color >> shift) & 255 with shift = 16 - 8 * k, for the channels k = 0, 1, 2
\* (tiv.cpp:335-337, 407-409).
Channel(color, k) == (color \div (2^(16 - 8 * k))) % 256

Unpack(color) == <<Channel(color, 0), Channel(color, 1), Channel(color, 2)>>

MinOf(S) == CHOOSE v \in S : \A u \in S : v <= u

MaxOf(S) == CHOOSE v \in S : \A u \in S : v >= u

\* ------------------------------------------------------------------------
\* createCharData (tiv.cpp:243-278).

\* A CharData as constructed (tiv.cpp:235-239).  codePoint is not
\* initialised; printImage reads only the colours of lastCharData.
NewCharData ==
  [fgColor |-> <<0, 0, 0>>, bgColor |-> <<0, 0, 0>>,
   codePoint |-> CHOOSE cp \in {0} : TRUE]

\* The pixels of the block whose bit is set in pattern (the mask starts at
\* 0x80000000 and moves right by one per pixel), and those whose bit is not.
FgPixels(pattern) == {p \in 0..31 : (31 - p) \in pattern}

BgPixels(pattern) == {p \in 0..31 : (31 - p) \notin pattern}

\* The sum of channel k over the pixels of lo..hi that are in ps (the sum
\* over lo..hi is that over lo..mid plus that over mid + 1..hi).
RECURSIVE SumRange(_, _, _, _, _, _, _)
SumRange(img, x0, y0, k, ps, lo, hi) ==
  IF lo = hi
  THEN IF lo \in ps THEN Pixel(img, BlockX(x0, lo), BlockY(y0, lo), k) ELSE 0
  ELSE LET mid == (lo + hi) \div 2
       IN  SumRange(img, x0, y0, k, ps, lo, mid)
             + SumRange(img, x0, y0, k, ps, mid + 1, hi)

\* avg[k] after the loops of tiv.cpp:251-266, for the bucket of the pixels ps.
SumChannel(img, x0, y0, k, ps) == SumRange(img, x0, y0, k, ps, 0, 31)

\* The average of channel k over the pixels ps; the sum is left as it is (0)
\* for an empty bucket (tiv.cpp:268-276).
Average_Unguarded(img, x0, y0, k, ps) ==
  IF Cardinality(ps) # 0
  THEN SumChannel(img, x0, y0, k, ps) \div Cardinality(ps)
  ELSE -1

Average(img, x0, y0, k, ps) ==
  IF Cardinality(ps) # 0
  THEN SumChannel(img, x0, y0, k, ps) \div Cardinality(ps)
  ELSE SumChannel(img, x0, y0, k, ps)

createCharData(img, x0, y0, cp, pattern) ==
  [fgColor |-> [k \in 1..3 |-> Average(img, x0, y0, k - 1, FgPixels(pattern))],
   bgColor |-> [k \in 1..3 |-> Average(img, x0, y0, k - 1, BgPixels(pattern))],
   codePoint |-> cp]

\* ------------------------------------------------------------------------
\* findCharData, the analysis of the block (tiv.cpp:292-372).

\* min[k] and max[k] after the scan (tiv.cpp:292-309).
ScanMin(img, x0, y0) ==
  [k \in 1..3 |->
     MinOf({255} \cup {Pixel(img, BlockX(x0, p), BlockY(y0, p), k - 1) : p \in 0..31})]

ScanMax(img, x0, y0) ==
  [k \in 1..3 |->
     MaxOf({0} \cup {Pixel(img, BlockX(x0, p), BlockY(y0, p), k - 1) : p \in 0..31})]

\* count_per_color after the scan: the packed colours of the block, each
\* with the number of its pixels.
CountPerColor(img, x0, y0) ==
  LET px == {<<p, Pack(BlockPixel(img, x0, y0, p))>> : p \in 0..31}
  IN  [color \in {q[2] : q \in px} |->
         Cardinality({q \in px : q[2] = color})]

\* color_per_count (tiv.cpp:311-314) as the set of its <<count, color>>
\* pairs.  The multimap is ordered by count; pairs of equal count keep the
\* order of their insertion, which is that of the map, ascending by colour.
ColorPerCount(cpc) == {<<cpc[color], color>> : color \in DOMAIN cpc}

Before(p1, p2) == p1[1] < p2[1] \/ (p1[1] = p2[1] /\ p1[2] < p2[2])

\* *color_per_count.rbegin()
rbegin(pairs) == CHOOSE p1 \in pairs : \A p2 \in pairs \ {p1} : Before(p2, p1)

\* count2, max_count_color_1 and max_count_color_2 (tiv.cpp:316-323).
RankColors_NoDefault(cpc) ==
  LET pairs == ColorPerCount(cpc)
      first == rbegin(pairs)
      rest == pairs \ {first}
  IN  IF rest # {}
      THEN [count2 |-> first[1] + rbegin(rest)[1],
            max_count_color_1 |-> first[2],
            max_count_color_2 |-> rbegin(rest)[2]]
      ELSE [count2 |-> first[1],
            max_count_color_1 |-> first[2],
            max_count_color_2 |-> 0]

RankColors(cpc) ==
  LET pairs == ColorPerCount(cpc)
      first == rbegin(pairs)
      rest == pairs \ {first}
  IN  IF rest # {}
      THEN [count2 |-> first[1] + rbegin(rest)[1],
            max_count_color_1 |-> first[2],
            max_count_color_2 |-> rbegin(rest)[2]]
      ELSE [count2 |-> first[1],
            max_count_color_1 |-> first[2],
            max_count_color_2 |-> first[2]]

\* bool direct = count2 > (8 * 4) / 2;
IsDirect_AtLeastHalf(cnt2) == cnt2 >= (8 * 4) \div 2

IsDirect(cnt2) == cnt2 > (8 * 4) \div 2

\* The squared distance of pixel p to the packed colour (tiv.cpp:332-341).
Distance(img, x0, y0, p, color) ==
  LET d(k) == Channel(color, k) - Pixel(img, BlockX(x0, p), BlockY(y0, p), k)
  IN  d(0) * d(0) + d(1) * d(1) + d(2) * d(2)

\* bits in direct mode (tiv.cpp:328-346): pixel p ends at bit 31 - p.
DirectBits_NotStrict(img, x0, y0, color1, color2) ==
  {31 - p : p \in {q \in 0..31 :
     Distance(img, x0, y0, q, color1) >= Distance(img, x0, y0, q, color2)}}

DirectBits(img, x0, y0, color1, color2) ==
  {31 - p : p \in {q \in 0..31 :
     Distance(img, x0, y0, q, color1) > Distance(img, x0, y0, q, color2)}}

\* splitIndex (tiv.cpp:349-356): the first channel of the greatest range.
SplitIndex(mn, mx) ==
  LET range(k) == mx[k + 1] - mn[k + 1]
  IN  IF range(0) <= 0 /\ range(1) <= 0 /\ range(2) <= 0 THEN 0
      ELSE CHOOSE k \in 0..2 :
             /\ \A j \in 0..2 : range(j) <= range(k)
             /\ \A j \in 0..(k - 1) : range(j) < range(k)

\* bestSplit
BestSplit(mn, mx) ==
  MaxOf({0} \cup {mx[k] - mn[k] : k \in 1..3})

\* splitValue (tiv.cpp:360)
SplitValue(mn, mx) == mn[SplitIndex(mn, mx) + 1] + (BestSplit(mn, mx) \div 2)

\* bits in split mode (tiv.cpp:364-371).
SplitBits(img, x0, y0, mn, mx) ==
  LET splitIndex == SplitIndex(mn, mx)
      splitValue == SplitValue(mn, mx)
  IN  {31 - p : p \in {q \in 0..31 :
         Pixel(img, BlockX(x0, q), BlockY(y0, q), splitIndex) > splitValue}}

\* The CharData of direct mode (tiv.cpp:399-413).
DirectCharData_NoSwap(color1, color2, inv, cp) ==
  [fgColor |-> Unpack(color2), bgColor |-> Unpack(color1), codePoint |-> cp]

DirectCharData(color1, color2, inv, cp) ==
  [fgColor |-> Unpack(IF inv THEN color1 ELSE color2),
   bgColor |-> Unpack(IF inv THEN color2 ELSE color1),
   codePoint |-> cp]

\* ------------------------------------------------------------------------
\* Colour quantization (tiv.cpp:96-104, 417-471).

COLOR_STEP_COUNT == 6

COLOR_STEPS == <<0, \H5f, \H87, \Haf, \Hd7, \Hff>>

GRAYSCALE_STEP_COUNT == 24

GRAYSCALE_STEPS ==
  <<\H08, \H12, \H1c, \H26, \H30, \H3a, \H44, \H4e, \H58, \H62, \H6c, \H76,
    \H80, \H8a, \H94, \H9e, \Ha8, \Hb2, \Hbc, \Hc6, \Hd0, \Hda, \He4, \Hee>>

clamp_byte_None(value) == value

clamp_byte(value) == IF value < 0 THEN 0 ELSE (IF value > 255 THEN 255 ELSE value)

\* sqr over the integers the code passes to it.
sqr(n) == n * n

\* std::abs
abs(n) == IF n < 0 THEN -n ELSE n

\* The loop of best_index from index k on (0-based, as in the source), with
\* the result and best_diff found so far.
RECURSIVE best_index_loop(_, _, _, _, _, _)
best_index_loop(value, STEPS, cnt, k, result, bd) ==
  IF k >= cnt THEN result
  ELSE LET diff == abs(STEPS[k + 1] - value)
       IN  IF diff < bd
           THEN best_index_loop(value, STEPS, cnt, k + 1, k, diff)
           ELSE best_index_loop(value, STEPS, cnt, k + 1, result, bd)

best_index(value, STEPS, cnt) ==
  best_index_loop(value, STEPS, cnt, 1, 0, abs(STEPS[1] - value))

\* What floating point does where exact arithmetic has a tie.  The luma is
\* computed in float and rounded (std::round): the result is that of exact
\* arithmetic with the constants 0.2989, 0.5870, 0.1140 for every colour of
\* 0..255 per channel whose exact luma is not k + 1/2; where it is, the
\* rounding error decides, and lumaUp says whether the result is k + 1.
\* The two weighted errors are computed in double: where they are equal in
\* exact arithmetic the rounding errors decide the comparison, and tieLess
\* says whether "<" comes out true.  Both depend on how the build evaluates
\* the expressions (contraction to fused multiply-add).
FloatingPoint == [lumaUp : BOOLEAN, tieLess : BOOLEAN]

NoTies == [lumaUp |-> TRUE, tieLess |-> FALSE]

\* static_cast<int>(std::round(r * 0.2989f + g * 0.5870f + b * 0.1140f))
\* for cr, cg, cb in 0..255 (tiv.cpp:456-457).
gray(cr, cg, cb, f) ==
  LET e == 2989 * cr + 5870 * cg + 1140 * cb
  IN  IF e % 10000 = 5000
      THEN (e \div 10000) + (IF f.lumaUp THEN 1 ELSE 0)
      ELSE (e + 5000) \div 10000

\* 100 times the weighted error 0.3 dr^2 + 0.59 dg^2 + 0.11 db^2 of the
\* colour <<qr, qg, qb>> for the colour <<cr, cg, cb>> (tiv.cpp:463-464).
weighted_error(qr, qg, qb, cr, cg, cb) ==
  30 * sqr(qr - cr) + 59 * sqr(qg - cg) + 11 * sqr(qb - cb)

\* The condition of the if at tiv.cpp:463-464.
cube_is_better_Swapped(e_cube, e_gray, f) == e_cube > e_gray

cube_is_better(e_cube, e_gray, f) ==
  e_cube < e_gray \/ (e_cube = e_gray /\ f.tieLess)

cube_index(ri, gi, bi) == 16 + 36 * ri + 6 * gi + bi

gray_index(gri) == 232 + gri

\* The palette indices of the colour cube and of the grayscale ramp.
CubeIndices ==
  {cube_index(ri, gi, bi) : ri \in 0..(COLOR_STEP_COUNT - 1),
                            gi \in 0..(COLOR_STEP_COUNT - 1),
                            bi \in 0..(COLOR_STEP_COUNT - 1)}

GrayIndices == {gray_index(gri) : gri \in 0..(GRAYSCALE_STEP_COUNT - 1)}

\* The cube colour and the grayscale step chosen for clamped channels, and
\* 100 times their weighted errors (tiv.cpp:448-464).
CubeError(cr, cg, cb) ==
  weighted_error(COLOR_STEPS[best_index(cr, COLOR_STEPS, COLOR_STEP_COUNT) + 1],
                 COLOR_STEPS[best_index(cg, COLOR_STEPS, COLOR_STEP_COUNT) + 1],
                 COLOR_STEPS[best_index(cb, COLOR_STEPS, COLOR_STEP_COUNT) + 1],
                 cr, cg, cb)

GrayStepIndex(cr, cg, cb, f) ==
  best_index(gray(cr, cg, cb, f), GRAYSCALE_STEPS, GRAYSCALE_STEP_COUNT)

GrayError(cr, cg, cb, f) ==
  LET grq == GRAYSCALE_STEPS[GrayStepIndex(cr, cg, cb, f) + 1]
  IN  weighted_error(grq, grq, grq, cr, cg, cb)

\* The outcomes of floating point for the comparison of the errors of the
\* cube colour q and the gray colour gq: where the two sides have the same
\* three squares they are the same computation, and "<" is false.
TieOutcome(q, gq, c, f) ==
  IF \A k \in 1..3 : sqr(q[k] - c[k]) = sqr(gq[k] - c[k])
  THEN [f EXCEPT !.tieLess = FALSE]
  ELSE f

\* color_index as computed at tiv.cpp:446-468 from the clamped channels.
ColorIndex(cr, cg, cb, f) ==
  LET ri == best_index(cr, COLOR_STEPS, COLOR_STEP_COUNT)
      gi == best_index(cg, COLOR_STEPS, COLOR_STEP_COUNT)
      bi == best_index(cb, COLOR_STEPS, COLOR_STEP_COUNT)
      rq == COLOR_STEPS[ri + 1]
      gq == COLOR_STEPS[gi + 1]
      bq == COLOR_STEPS[bi + 1]
      gri == GrayStepIndex(cr, cg, cb, f)
      grq == GRAYSCALE_STEPS[gri + 1]
  IN  IF cube_is_better(weighted_error(rq, gq, bq, cr, cg, cb),
                        weighted_error(grq, grq, grq, cr, cg, cb),
                        TieOutcome(<<rq, gq, bq>>, <<grq, grq, grq>>,
                                   <<cr, cg, cb>>, f))
      THEN cube_index(ri, gi, bi)
      ELSE gray_index(gri)

\* The escape sequence "\x1b[<sel>;<mode>;<args>m" as a record.
Escape(sel, mode, args) == [sel |-> sel, mode |-> mode, args |-> args]

\* emitTermColor (tiv.cpp:436-471); pr, pg, pb are its parameters r, g, b.
emitTermColor(fl, pr, pg, pb, f) ==
  LET cr == clamp_byte(pr)
      cg == clamp_byte(pg)
      cb == clamp_byte(pb)
      sel == IF FLAG_BG \in fl THEN 48 ELSE 38
  IN  IF FLAG_MODE_256 \notin fl
      THEN Escape(sel, 2, <<cr, cg, cb>>)
      ELSE Escape(sel, 5, <<ColorIndex(cr, cg, cb, f)>>)

\* ------------------------------------------------------------------------
\* The glyph search run step by step on a coverage mask.

\* Coverage masks the search is run on: every dictionary pattern and its
\* complement, each also with one bit changed, and masks made of four bands
\* of two equal rows.
FlipSets == {{}, {0}, {17}}

RowNibbles == {0, 3, 10, 12, 15}

PatternIndices == {n \in 0..(BITMAPS_SIZE - 2) : n % 2 = 0}

GlyphMasks ==
  {Xor(At(n), f) : n \in PatternIndices, f \in FlipSets}
  \cup {Xor(Not(At(n)), f) : n \in PatternIndices, f \in FlipSets}
  \cup {W(4352 * n1 + 17 * n2, 4352 * n3 + 17 * n4) :
          n1 \in RowNibbles, n2 \in RowNibbles,
          n3 \in RowNibbles, n4 \in RowNibbles}

\* Values of the variables a specification does not use.
NoImage == [w |-> 0, h |-> 0, pix |-> <<>>]

IdleImage ==
  /\ image = NoImage /\ x = 0 /\ y = 0
  /\ lastCharData = NewCharData /\ charData = NewCharData
  /\ out = <<>> /\ cells = <<>> /\ reads = {}

IdleAnalysis ==
  /\ min = <<255, 255, 255>> /\ max = <<0, 0, 0>>
  /\ count_per_color = <<>> /\ count2 = 0
  /\ max_count_color_1 = 0 /\ max_count_color_2 = 0 /\ direct = FALSE

IdleSearch ==
  /\ i = 0 /\ best_diff = SearchInit.best_diff
  /\ best_pattern = SearchInit.best_pattern
  /\ codepoint = SearchInit.codepoint /\ inverted = SearchInit.inverted

IdleColor == rgb = <<0, 0, 0>> /\ escape = <<>> /\ fp = NoTies

InitGlyph ==
  /\ bits \in GlyphMasks
  /\ flags \in {{}, {FLAG_TELETEXT}}
  /\ pc = "search"
  /\ IdleImage /\ IdleAnalysis /\ IdleSearch /\ IdleColor

SearchState ==
  [best_diff |-> best_diff, best_pattern |-> best_pattern,
   codepoint |-> codepoint, inverted |-> inverted]

SetSearchState(st) ==
  /\ best_diff' = st.best_diff
  /\ best_pattern' = st.best_pattern
  /\ codepoint' = st.codepoint
  /\ inverted' = st.inverted

\* tiv.cpp:383-385: an end marker that does not end the loop is skipped.
SearchSkip ==
  /\ pc = "search"
  /\ i + 1 < BITMAPS_SIZE
  /\ At(i + 1) # end_marker(flags)
  /\ At(i + 1) < 32
  /\ i' = i + 2
  /\ UNCHANGED <<best_diff, best_pattern, codepoint, inverted, pc, bits, flags>>
  /\ UNCHANGED <<imageVars, analysisVars, colorVars, fp>>

\* tiv.cpp:386-396: one entry is compared, as it is and complemented.
SearchCompare ==
  /\ pc = "search"
  /\ i + 1 < BITMAPS_SIZE
  /\ At(i + 1) # end_marker(flags)
  /\ At(i + 1) >= 32
  /\ SetSearchState(SearchBody(SearchState, i, bits))
  /\ i' = i + 2
  /\ UNCHANGED <<pc, bits, flags>>
  /\ UNCHANGED <<imageVars, analysisVars, colorVars, fp>>

\* tiv.cpp:381: the loop ends at the active end marker.
SearchExit ==
  /\ pc = "search"
  /\ i + 1 < BITMAPS_SIZE
  /\ At(i + 1) = end_marker(flags)
  /\ pc' = "matched"
  /\ UNCHANGED <<searchVars, bits, flags>>
  /\ UNCHANGED <<imageVars, analysisVars, colorVars, fp>>

NextGlyph == SearchSkip \/ SearchCompare \/ SearchExit

SpecGlyph == InitGlyph /\ [][NextGlyph]_vars

\* ------------------------------------------------------------------------
\* printImage (tiv.cpp:552-576) with findCharData (tiv.cpp:290-415).

\* printCodepoint (tiv.cpp:524-544): the bytes written to std::cout.
printCodepoint(cp) ==
  IF cp < 128 THEN <<cp>>
  ELSE IF cp < \H7ff
    THEN <<\Hc0 + (cp \div 64), \H80 + (cp % 64)>>
  ELSE IF cp < \Hffff
    THEN <<\He0 + (cp \div 4096), \H80 + ((cp \div 64) % 64), \H80 + (cp % 64)>>
  ELSE IF cp < \H10ffff
    THEN <<\Hf0 + (cp \div 262144), \H80 + ((cp \div 4096) % 64),
           \H80 + ((cp \div 64) % 64), \H80 + (cp % 64)>>
  ELSE <<>>

\* What is written for a glyph, and the format reset and line break that
\* end a row (tiv.cpp:574).
Glyph(cp) == [utf8 |-> printCodepoint(cp)]

Reset == [reset |-> "ESC[0m LF"]

\* The conditions of the two loops (tiv.cpp:555-556).
RowCond(img, py) == py <= height(img) - 8

ColCond_PartialBlocks(img, px) == px < width(img)

ColCond(img, px) == px <= width(img) - 4

\* x == 0 || charData.bgColor != lastCharData.bgColor, and the same for the
\* foreground (tiv.cpp:563, 567).
NeedsEscape_NoRowStart(px, color, lastColor) == color # lastColor

NeedsEscape(px, color, lastColor) == px = 0 \/ color # lastColor

\* What printImage writes for a cell (tiv.cpp:563-571).
CellOutput(fl, px, cd, last, f) ==
  (IF NeedsEscape(px, cd.bgColor, last.bgColor)
   THEN <<emitTermColor(fl \cup {FLAG_BG}, cd.bgColor[1], cd.bgColor[2],
                        cd.bgColor[3], f)>>
   ELSE <<>>)
  \o (IF NeedsEscape(px, cd.fgColor, last.fgColor)
      THEN <<emitTermColor(fl \cup {FLAG_FG}, cd.fgColor[1], cd.fgColor[2],
                           cd.fgColor[3], f)>>
      ELSE <<>>)
  \o <<Glyph(cd.codePoint)>>

\* tiv.cpp:555: the outer loop goes on with the next row of blocks.
RowEnter ==
  /\ pc = "row"
  /\ RowCond(image, y)
  /\ x' = 0
  /\ pc' = "col"
  /\ UNCHANGED <<image, flags, fp, y, lastCharData, charData, out, cells, reads>>
  /\ UNCHANGED <<analysisVars, bits, searchVars, colorVars>>

\* tiv.cpp:555, 576: the outer loop ends, printImage returns.
RowsDone ==
  /\ pc = "row"
  /\ ~RowCond(image, y)
  /\ pc' = "done"
  /\ UNCHANGED <<imageVars, flags, fp, analysisVars, bits, searchVars, colorVars>>

\* tiv.cpp:556, 574: the inner loop ends, the row is closed.
RowEnd ==
  /\ pc = "col"
  /\ ~ColCond(image, x)
  /\ out' = Append(out, Reset)
  /\ y' = y + 8
  /\ pc' = "row"
  /\ UNCHANGED <<image, flags, fp, x, lastCharData, charData, cells, reads>>
  /\ UNCHANGED <<analysisVars, bits, searchVars, colorVars>>

\* tiv.cpp:559-561: with FLAG_NOOPT the block gets the lower half block.
HalfBlock_UpperHalf ==
  /\ pc = "col"
  /\ ColCond(image, x)
  /\ FLAG_NOOPT \in flags
  /\ charData' = createCharData(image, x, y, \H2580, W(\Hffff, \H0000))
  /\ reads' = reads \cup BlockCoords(x, y)
  /\ pc' = "emit"
  /\ UNCHANGED <<image, flags, fp, x, y, lastCharData, out, cells>>
  /\ UNCHANGED <<analysisVars, bits, searchVars, colorVars>>

HalfBlock ==
  /\ pc = "col"
  /\ ColCond(image, x)
  /\ FLAG_NOOPT \in flags
  /\ charData' = createCharData(image, x, y, \H2584, W(\H0000, \Hffff))
  /\ reads' = reads \cup BlockCoords(x, y)
  /\ pc' = "emit"
  /\ UNCHANGED <<image, flags, fp, x, y, lastCharData, out, cells>>
  /\ UNCHANGED <<analysisVars, bits, searchVars, colorVars>>

\* tiv.cpp:292-323: findCharData is entered; the block is scanned and its
\* colours are ranked by their counts.
FindScan ==
  /\ pc = "col"
  /\ ColCond(image, x)
  /\ FLAG_NOOPT \notin flags
  /\ min' = ScanMin(image, x, y)
  /\ max' = ScanMax(image, x, y)
  /\ count_per_color' = CountPerColor(image, x, y)
  /\ LET rank == RankColors(count_per_color')
     IN  /\ count2' = rank.count2
         /\ max_count_color_1' = rank.max_count_color_1
         /\ max_count_color_2' = rank.max_count_color_2
  /\ reads' = reads \cup BlockCoords(x, y)
  /\ pc' = "mask"
  /\ UNCHANGED <<image, flags, fp, x, y, lastCharData, charData, out, cells>>
  /\ UNCHANGED <<direct, bits, searchVars, colorVars>>

\* tiv.cpp:325-372: the mode is decided and the coverage mask computed.
FindMask ==
  /\ pc = "mask"
  /\ direct' = IsDirect(count2)
  /\ bits' = IF IsDirect(count2)
             THEN DirectBits(image, x, y, max_count_color_1, max_count_color_2)
             ELSE SplitBits(image, x, y, min, max)
  /\ reads' = reads \cup BlockCoords(x, y)
  /\ pc' = "match"
  /\ UNCHANGED <<image, flags, fp, x, y, lastCharData, charData, out, cells>>
  /\ UNCHANGED <<min, max, count_per_color, count2, max_count_color_1,
                 max_count_color_2, searchVars, colorVars>>

\* tiv.cpp:374-397: the glyph search, from its initial values.
FindSearch_StaticLocals ==
  /\ pc = "match"
  /\ SetSearchState(SearchLoop(SearchState, 0, bits, flags))
  /\ pc' = "colors"
  /\ UNCHANGED <<imageVars, flags, fp, analysisVars, bits, i, colorVars>>

FindSearch ==
  /\ pc = "match"
  /\ SetSearchState(Search(bits, flags))
  /\ pc' = "colors"
  /\ UNCHANGED <<imageVars, flags, fp, analysisVars, bits, i, colorVars>>

\* tiv.cpp:399-414: the colours of the CharData returned.
FindColors_RawMask ==
  /\ pc = "colors"
  /\ charData' =
       IF direct
       THEN DirectCharData(max_count_color_1, max_count_color_2, inverted,
                           codepoint)
       ELSE createCharData(image, x, y, codepoint, bits)
  /\ reads' = IF direct THEN reads ELSE reads \cup BlockCoords(x, y)
  /\ pc' = "emit"
  /\ UNCHANGED <<image, flags, fp, x, y, lastCharData, out, cells>>
  /\ UNCHANGED <<analysisVars, bits, searchVars, colorVars>>

FindColors ==
  /\ pc = "colors"
  /\ charData' =
       IF direct
       THEN DirectCharData(max_count_color_1, max_count_color_2, inverted,
                           codepoint)
       ELSE createCharData(image, x, y, codepoint, best_pattern)
  /\ reads' = IF direct THEN reads ELSE reads \cup BlockCoords(x, y)
  /\ pc' = "emit"
  /\ UNCHANGED <<image, flags, fp, x, y, lastCharData, out, cells>>
  /\ UNCHANGED <<analysisVars, bits, searchVars, colorVars>>

\* tiv.cpp:563-572: the escapes and the glyph of the cell are written, and
\* the inner loop steps to the next block.
EmitCell_KeepsLast ==
  /\ pc = "emit"
  /\ LET written == CellOutput(flags, x, charData, lastCharData, fp)
     IN  /\ out' = out \o written
         /\ cells' = Append(cells, [x0 |-> x, y0 |-> y, charData |-> charData,
                                    written |-> written])
  /\ x' = x + 4
  /\ pc' = "col"
  /\ UNCHANGED <<image, flags, fp, y, lastCharData, charData, reads>>
  /\ UNCHANGED <<analysisVars, bits, searchVars, colorVars>>

EmitCell ==
  /\ pc = "emit"
  /\ LET written == CellOutput(flags, x, charData, lastCharData, fp)
     IN  /\ out' = out \o written
         /\ cells' = Append(cells, [x0 |-> x, y0 |-> y, charData |-> charData,
                                    written |-> written])
  /\ lastCharData' = charData
  /\ x' = x + 4
  /\ pc' = "col"
  /\ UNCHANGED <<image, flags, fp, y, charData, reads>>
  /\ UNCHANGED <<analysisVars, bits, searchVars, colorVars>>

Next ==
  \/ RowEnter
  \/ RowsDone
  \/ RowEnd
  \/ HalfBlock
  \/ FindScan
  \/ FindMask
  \/ FindSearch
  \/ FindColors
  \/ EmitCell

\* ------------------------------------------------------------------------
\* The images printImage is run on.

Black == <<0, 0, 0>>

White == <<255, 255, 255>>

ColorA == <<10, 20, 30>>

ColorB == <<200, 100, 50>>

\* Blocks, as the colours of their 32 pixels.
Uniform(c) == [p \in 0..31 |-> c]

\* Colour cB where the bit of the pixel is set in mask m, colour cA elsewhere.
TwoColor(m, cA, cB) == [p \in 0..31 |-> IF (31 - p) \in m THEN cB ELSE cA]

\* 32 different colours, with the greatest range on channel k.
Gradient(k) ==
  [p \in 0..31 |->
     [c \in 1..3 |-> IF c = k + 1 THEN 7 * p + 3 * (p % 4)
                     ELSE IF c = ((k + 1) % 3) + 1 THEN 100 + 8 * (p % 4)
                     ELSE 200 - 2 * (p \div 4)]]

\* n1 pixels of colour cA, then n2 of colour cB, then pixels that take turns
\* among nf other colours.
Runs(n1, n2, nf, cA, cB) ==
  [p \in 0..31 |->
     IF p < n1 THEN cA
     ELSE IF p < n1 + n2 THEN cB
     ELSE <<40 + (p % nf), 250 - 3 * (p % nf), 128>>]

\* The image of w by h pixels whose blocks are given by content, a function
\* from <<column, row>> of a block to the block; the pixels right of the last
\* whole block and below the last whole row of blocks have the colour strip.
MakeImage(w, h, content, strip) ==
  [w |-> w, h |-> h,
   pix |-> [c \in (0..(w - 1)) \X (0..(h - 1)) |->
              IF c[1] < 4 * (w \div 4) /\ c[2] < 8 * (h \div 8)
              THEN content[<<c[1] \div 4, c[2] \div 8>>][4 * (c[2] % 8) + (c[1] % 4)]
              ELSE strip]]

MaxW == 9

MaxH == 17

ImageBlocks ==
  {Uniform(Black), TwoColor(W(\Hffff, \H0000), ColorB, Black), Gradient(1)}

Images ==
  UNION {
    {MakeImage(w, h, content, White) :
       content \in [(0..((w \div 4) - 1)) \X (0..((h \div 8) - 1)) -> ImageBlocks]} :
    w \in 1..MaxW, h \in 1..MaxH}

PrintFlags ==
  {{}, {FLAG_NOOPT}, {FLAG_NOOPT, FLAG_TELETEXT}, {FLAG_MODE_256, FLAG_TELETEXT}}

InitPrint ==
  /\ x = 0 /\ y = 0
  /\ lastCharData = NewCharData /\ charData = NewCharData
  /\ out = <<>> /\ cells = <<>> /\ reads = {}
  /\ pc = "row"
  /\ bits = {}
  /\ IdleAnalysis /\ IdleSearch /\ IdleColor

Init ==
  /\ image \in Images
  /\ flags \in PrintFlags
  /\ InitPrint

Spec == Init /\ [][Next]_vars

\* printImage run on an image of one block.
BlockMasks ==
  {At(n) : n \in PatternIndices} \cup {Not(At(n)) : n \in PatternIndices}
  \cup {W(\Haaaa, \Haaaa), W(\H5a5a, \H5a5a), W(\Hf0f0, \Hf0f0)}

Blocks ==
  {Uniform(c) : c \in {Black, White, ColorA, ColorB}}
  \cup {TwoColor(m, Black, White) : m \in BlockMasks}
  \cup {TwoColor(m, ColorB, ColorA) : m \in BlockMasks}
  \cup {Runs(n1, n2, nf, ColorA, ColorB) :
          n1 \in 0..32, n2 \in 0..32, nf \in {3, 32}}
  \cup {Gradient(k) : k \in 0..2}

InitBlock ==
  /\ image \in {MakeImage(4, 8, [c \in {<<0, 0>>} |-> blk], White) : blk \in Blocks}
  /\ flags \in PrintFlags
  /\ InitPrint

SpecBlock == InitBlock /\ [][Next]_vars

\* ------------------------------------------------------------------------
\* The dictionary's ranges (tiv.cpp:108-227).

\* Index of the "0, 0" end marker of the regular characters (tiv.cpp:197).
FirstEndMarker ==
  CHOOSE n \in PatternIndices :
    /\ At(n + 1) < 32
    /\ \A k \in PatternIndices : k < n => At(k + 1) >= 32

\* Index of the "0, 1" end marker of the teletext characters (tiv.cpp:226).
LastEndMarker ==
  CHOOSE n \in PatternIndices :
    /\ n > FirstEndMarker
    /\ At(n + 1) < 32
    /\ \A k \in PatternIndices : (FirstEndMarker < k /\ k < n) => At(k + 1) >= 32

\* Entries before the first end marker, and entries after it.
StandardRange == {n \in PatternIndices : n < FirstEndMarker}

ExtendedRange ==
  {n \in PatternIndices : FirstEndMarker < n /\ n < LastEndMarker}

\* The non-sentinel entries of the range that is active under flags fl.
ActiveRange(fl) ==
  IF FLAG_TELETEXT \in fl THEN StandardRange \cup ExtendedRange
  ELSE StandardRange

\* Hamming distance of a pattern to mask m, the smaller of the distance of
\* the pattern and of its complement.
Hamming(pattern, m) ==
  LET d == count(Xor(pattern, m))
  IN  IF d <= 32 - d THEN d ELSE 32 - d

\* The least distance of an entry of the active range to mask m.
LeastDistance(m, fl) ==
  CHOOSE d \in 0..32 :
    /\ \E n \in ActiveRange(fl) : Hamming(At(n), m) = d
    /\ \A n \in ActiveRange(fl) : Hamming(At(n), m) >= d

\* ------------------------------------------------------------------------
\* Claims about the glyph search.

C3_NoExtendedGlyph ==
  FLAG_TELETEXT \notin flags =>
    /\ \A n \in ExtendedRange : codepoint # At(n + 1)
    /\ \E n \in StandardRange : best_pattern = At(n) /\ codepoint = At(n + 1)
    /\ i <= FirstEndMarker

\* C3 witness: a search without the teletext flag has ended on a mask to
\* which an entry after the first end marker is strictly nearer than every
\* entry before it.
C3_Witness ==
  /\ pc = "matched"
  /\ FLAG_TELETEXT \notin flags
  /\ \E n \in ExtendedRange :
       \A k \in StandardRange : Hamming(At(n), bits) < Hamming(At(k), bits)

\* C4: the search always can take a step until it has ended, its index
\* stays inside the table, and the code point it holds - also when it has
\* ended - is at least 32 and is the code point of a non-sentinel entry of
\* the active range, never that of an end marker.
C4_AlwaysAGlyph ==
  /\ pc = "search" => (i + 1 < BITMAPS_SIZE /\ ENABLED NextGlyph)
  /\ codepoint >= 32
  /\ \E n \in ActiveRange(flags) :
       At(n + 1) = codepoint /\ At(n) = best_pattern /\ At(n + 1) >= 32
  /\ \A n \in PatternIndices : At(n + 1) < 32 => codepoint # At(n + 1)

\* C4 witness: a search with the teletext flag has passed the first end
\* marker and ended at the second without any entry having been accepted.
C4_Witness ==
  /\ pc = "matched"
  /\ FLAG_TELETEXT \in flags
  /\ i = LastEndMarker
  /\ best_diff = 8
  /\ LeastDistance(bits, flags) >= 8

\* ------------------------------------------------------------------------
\* emitTermColor applied to a colour.

\* Channel values passed to emitTermColor, inside and outside 0..255.
Channels ==
  {-300, -1, 0, 1, 4, 20, 59, 74, 95, 115, 122, 136, 175, 215, 247, 255,
   256, 1000}

InitColor ==
  /\ rgb \in Channels \X Channels \X Channels
  /\ flags \in {{FLAG_BG}, {FLAG_FG}, {FLAG_BG, FLAG_MODE_256},
                {FLAG_FG, FLAG_MODE_256}}
  /\ fp \in FloatingPoint
  /\ escape = <<>>
  /\ pc = "emit"
  /\ bits = {}
  /\ IdleImage /\ IdleAnalysis /\ IdleSearch

\* tiv.cpp:437-444: the true-colour escape.
EmitTrueColor ==
  /\ pc = "emit"
  /\ FLAG_MODE_256 \notin flags
  /\ escape' = emitTermColor(flags, rgb[1], rgb[2], rgb[3], fp)
  /\ pc' = "emitted"
  /\ UNCHANGED <<rgb, fp, flags, bits, imageVars, analysisVars, searchVars>>

\* tiv.cpp:437-470: the palette escape.
Emit256 ==
  /\ pc = "emit"
  /\ FLAG_MODE_256 \in flags
  /\ escape' = emitTermColor(flags, rgb[1], rgb[2], rgb[3], fp)
  /\ pc' = "emitted"
  /\ UNCHANGED <<rgb, fp, flags, bits, imageVars, analysisVars, searchVars>>

NextColor == EmitTrueColor \/ Emit256

SpecColor == InitColor /\ [][NextColor]_vars

\* C5: whatever integers are passed, a palette escape carries an index of
\* 16..255 (a cube index of 16..231 or a grayscale index of 232..255) and a
\* true-colour escape carries three channel values of 0..255.
C5_EmittedInRange ==
  pc = "emitted" =>
    /\ escape.sel = (IF FLAG_BG \in flags THEN 48 ELSE 38)
    /\ IF FLAG_MODE_256 \in flags
       THEN /\ escape.mode = 5
            /\ Len(escape.args) = 1
            /\ escape.args[1] \in 16..255
            /\ escape.args[1] \in CubeIndices \cup GrayIndices
            /\ CubeIndices = 16..231
            /\ GrayIndices = 232..255
       ELSE /\ escape.mode = 2
            /\ Len(escape.args) = 3
            /\ \A c \in 1..3 : escape.args[c] \in 0..255

\* C5 witness: a colour with a channel below 0 and a channel above 255 has
\* been emitted.
C5_Witness ==
  /\ pc = "emitted"
  /\ \E c \in 1..3 : rgb[c] < 0
  /\ \E c \in 1..3 : rgb[c] > 255

\* C9 (as stated): the colour <<136,136,136>> quantized in 256-colour mode
\* gets the grayscale index if the grayscale error is strictly lower, and
\* the index chosen lies in 232..255.
C9_Gray136OnRamp ==
  (pc = "emitted" /\ FLAG_MODE_256 \in flags /\ rgb = <<136, 136, 136>>) =>
    /\ GrayError(136, 136, 136, fp) < CubeError(136, 136, 136)
         => escape.args[1] = gray_index(GrayStepIndex(136, 136, 136, fp))
    /\ escape.args[1] \in 232..255

\* C9 (amended): a colour whose weighted grayscale error is strictly lower
\* than its cube error gets the grayscale index, which lies in 232..255; for
\* <<136,136,136>> the grayscale error (4.00, step 0x8a) is not lower than
\* the cube error (1.00, colour 0x87 on each channel), so the index emitted
\* is the cube index 16 + 36*2 + 6*2 + 2 = 102, outside 232..255.
C9_Gray136OnCube ==
  (pc = "emitted" /\ FLAG_MODE_256 \in flags) =>
    LET cr == clamp_byte(rgb[1])
        cg == clamp_byte(rgb[2])
        cb == clamp_byte(rgb[3])
    IN  /\ GrayError(cr, cg, cb, fp) < CubeError(cr, cg, cb) =>
             /\ escape.args[1] = gray_index(GrayStepIndex(cr, cg, cb, fp))
             /\ escape.args[1] \in 232..255
        /\ rgb = <<136, 136, 136>> =>
             /\ CubeError(136, 136, 136) = 100
             /\ GrayError(136, 136, 136, fp) = 400
             /\ escape.args[1] = 102

\* C9 witness: <<136,136,136>> has been quantized in 256-colour mode.
C9_Witness ==
  /\ pc = "emitted"
  /\ FLAG_MODE_256 \in flags
  /\ rgb = <<136, 136, 136>>
  /\ escape = Escape(38, 5, <<102>>)

\* ------------------------------------------------------------------------
\* Claims about the analysis of one block.

\* The colours of the current block, each with the number of the pixels of
\* the block that have it.
BlockFrequencies ==
  LET px == {<<p, BlockPixel(image, x, y, p)>> : p \in 0..31}
  IN  [c \in {q[2] : q \in px} |-> Cardinality({q \in px : q[2] = c})]

BlockColors == DOMAIN BlockFrequencies

\* The frequency of the most frequent colour plus the frequency of the
\* second most frequent distinct colour, 0 if the block has one colour only.
TopTwoFrequencies ==
  LET f == BlockFrequencies
      top == MaxOf({f[c] : c \in DOMAIN f})
      first == CHOOSE c \in DOMAIN f : f[c] = top
      second == MaxOf({0} \cup {f[c] : c \in DOMAIN f \ {first}})
  IN  top + second

\* findCharData has decided the mode of the current block.
ModeDecided == pc \in {"match", "colors"}

\* C2: once findCharData has decided the mode of a block, direct mode is
\* selected if and only if the frequency of the most frequent colour plus
\* that of the second most frequent distinct colour (0 if there is none) is
\* greater than 16; split mode is selected otherwise.
C2_DirectIffMoreThanHalf ==
  ModeDecided => (direct <=> TopTwoFrequencies > 16)

\* A block of at least three colours whose two most frequent colours cover
\* exactly 16 pixels, for which split mode was selected.
C2_Witness ==
  /\ ModeDecided
  /\ TopTwoFrequencies = 16
  /\ Cardinality(BlockColors) >= 3
  /\ ~direct

\* The current block has one colour only.
IsUniform == Cardinality(BlockColors) = 1

UniformColor == CHOOSE c \in BlockColors : TRUE

\* C10: for a block whose 32 pixels have the same colour c, findCharData
\* counts 32 pixels for the top colour, takes c for both representative
\* colours, selects direct mode, and returns a CharData whose foreground and
\* background are both c.
C10_UniformBlock ==
  (FLAG_NOOPT \notin flags /\ IsUniform) =>
    /\ pc \in {"mask", "match", "colors"} =>
         /\ count2 = 32
         /\ max_count_color_1 = Pack(UniformColor)
         /\ max_count_color_2 = Pack(UniformColor)
    /\ ModeDecided => direct
    /\ pc = "emit" =>
         /\ charData.fgColor = UniformColor
         /\ charData.bgColor = UniformColor

\* findCharData has returned for a uniform block that is not black.
C10_Witness ==
  /\ pc = "emit"
  /\ FLAG_NOOPT \notin flags
  /\ IsUniform
  /\ UniformColor = ColorA
  /\ direct
  /\ charData.fgColor = ColorA

\* ------------------------------------------------------------------------
\* Claims about printImage.

\* The escapes and the glyph a cell is expected to write: cell n of the
\* cells processed so far, the cell before it being the previously processed
\* one.
ExpectedWritten(n) ==
  LET cd == cells[n].charData
      first == cells[n].x0 = 0
      bgDiffers == IF n = 1 THEN TRUE
                   ELSE cd.bgColor # cells[n - 1].charData.bgColor
      fgDiffers == IF n = 1 THEN TRUE
                   ELSE cd.fgColor # cells[n - 1].charData.fgColor
  IN  (IF first \/ bgDiffers
       THEN <<emitTermColor(flags \cup {FLAG_BG}, cd.bgColor[1], cd.bgColor[2],
                            cd.bgColor[3], fp)>>
       ELSE <<>>)
      \o (IF first \/ fgDiffers
          THEN <<emitTermColor(flags \cup {FLAG_FG}, cd.fgColor[1],
                               cd.fgColor[2], cd.fgColor[3], fp)>>
          ELSE <<>>)
      \o <<Glyph(cd.codePoint)>>

\* C6: for every cell, the background escape is written if and only if the
\* cell is the first of its row or its background differs from that of the
\* previously processed cell, the same holds for the foreground escape, the
\* glyph is always written, and the order in the cell is background escape,
\* foreground escape, glyph.
C6_EscapesOnlyOnChange ==
  \A n \in DOMAIN cells :
    /\ cells[n].written = ExpectedWritten(n)
    /\ \A k \in DOMAIN cells[n].written :
         LET e == cells[n].written[k]
         IN  /\ ("sel" \in DOMAIN e /\ e.sel = 48) => k = 1
             /\ ("utf8" \in DOMAIN e) <=> k = Len(cells[n].written)

\* A cell inside a row that wrote its glyph only, and a cell at the start of
\* a later row that wrote both escapes though its colours are those of the
\* cell before it.
C6_Witness ==
  /\ \E n \in DOMAIN cells :
       /\ cells[n].x0 # 0
       /\ Len(cells[n].written) = 1
  /\ \E n \in DOMAIN cells :
       /\ n > 1
       /\ cells[n].x0 = 0
       /\ cells[n].charData.bgColor = cells[n - 1].charData.bgColor
       /\ cells[n].charData.fgColor = cells[n - 1].charData.fgColor
       /\ Len(cells[n].written) = 3

\* The numbers of whole blocks in a row and of rows of whole blocks.
BlockColumns == width(image) \div 4

BlockRows == height(image) \div 8

\* The pixel at c is right of the last whole block or below the last whole
\* row of blocks.
InTrailingStrip(c) == c[1] >= 4 * BlockColumns \/ c[2] >= 8 * BlockRows

IsGlyphOrReset(e) == "utf8" \in DOMAIN e \/ "reset" \in DOMAIN e

\* C7: no pixel outside the image and no pixel of the trailing strip is ever
\* read; when printImage has returned, the blocks processed are those at
\* (4i, 8j) for i < floor(w/4) and j < floor(h/8), once each in row-major
\* order, the output is what the cells wrote, and each row of blocks, also
\* one of no cells, is followed by exactly one format reset and line break.
C7_WholeBlocksRowMajor ==
  /\ reads \subseteq DOMAIN image.pix
  /\ \A c \in reads : ~InTrailingStrip(c)
  /\ pc = "done" =>
       /\ Len(cells) = BlockColumns * BlockRows
       /\ \A n \in DOMAIN cells :
            /\ cells[n].x0 = 4 * ((n - 1) % BlockColumns)
            /\ cells[n].y0 = 8 * ((n - 1) \div BlockColumns)
       /\ reads = UNION {BlockCoords(cells[n].x0, cells[n].y0) : n \in DOMAIN cells}
       /\ Len(out) = BlockRows
                     + Cardinality({<<n, k>> \in (DOMAIN cells) \X (1..3) :
                                      k <= Len(cells[n].written)})
       /\ LET marks == SelectSeq(out, IsGlyphOrReset)
          IN  /\ Len(marks) = BlockRows * (BlockColumns + 1)
              /\ \A k \in DOMAIN marks :
                   IF k % (BlockColumns + 1) = 0
                   THEN marks[k] = Reset
                   ELSE marks[k] =
                          Glyph(cells[k - (k \div (BlockColumns + 1))].charData.codePoint)

\* printImage has returned for an image of two rows of two whole blocks
\* each, with a strip of one column right of them and one row below them.
C7_Witness ==
  /\ pc = "done"
  /\ width(image) = 9
  /\ height(image) = 17
  /\ Len(cells) = 4
  /\ \E c \in DOMAIN image.pix : InTrailingStrip(c)
  /\ reads # {}

\* C8: two blocks of the same run that have the same 32 pixels get the same
\* CharData, wherever they are in the image and whatever blocks were
\* processed before them.
C8_SamePixelsSameCharData ==
  pc = "done" =>
    \A a, b \in DOMAIN cells :
      BlockPixels(image, cells[a].x0, cells[a].y0)
        = BlockPixels(image, cells[b].x0, cells[b].y0)
      => cells[a].charData = cells[b].charData

\* Two blocks of the same pixels with a block of other pixels, and of
\* another glyph, processed between them.
C8_Witness ==
  /\ pc = "done"
  /\ FLAG_NOOPT \notin flags
  /\ \E a, b, c \in DOMAIN cells :
       /\ a < b /\ b < c
       /\ BlockPixels(image, cells[a].x0, cells[a].y0)
            = BlockPixels(image, cells[c].x0, cells[c].y0)
       /\ cells[b].charData.codePoint # cells[a].charData.codePoint
       /\ cells[c].charData = cells[a].charData

\* ------------------------------------------------------------------------
\* Claims about the CharData findCharData returns.

\* findCharData has returned for the current block.
Returned == pc = "emit" /\ FLAG_NOOPT \notin flags

\* The bits of the pixels of the current block that have colour c (pixel p
\* at bit 31 - p).
ColorBits(c) ==
  {31 - p : p \in {q \in 0..31 : BlockPixel(image, x, y, q) = c}}

\* The current block has two colours, and the pixels of one of them are
\* those of the set bits of an entry of the active range (the pixels of the
\* other are then those of its complement).
TwoColorsOnPattern ==
  /\ Cardinality(BlockColors) = 2
  /\ \E c \in BlockColors : \E n \in ActiveRange(flags) : ColorBits(c) = At(n)

\* C11: for a block of exactly two colours arranged as an entry of the
\* active range or as its complement, findCharData selects direct mode with
\* the two colours as representatives and returns the code point of an
\* active entry whose set bits are exactly the pixels of the foreground
\* colour returned, the background being the other colour.
C11_TwoColourExactGlyph ==
  (Returned /\ TwoColorsOnPattern) =>
    /\ direct
    /\ {Unpack(max_count_color_1), Unpack(max_count_color_2)} = BlockColors
    /\ {charData.fgColor, charData.bgColor} = BlockColors
    /\ \E n \in ActiveRange(flags) :
         /\ At(n + 1) = charData.codePoint
         /\ At(n) = ColorBits(charData.fgColor)
         /\ Not(At(n)) = ColorBits(charData.bgColor)

\* The block of black and white quadrants, matched against the complement
\* of the quadrant glyph 0x259a.
C11_Witness ==
  /\ Returned
  /\ TwoColorsOnPattern
  /\ BlockColors = {Black, White}
  /\ ColorBits(White) = W(\Hcccc, \H3333)
  /\ inverted
  /\ charData.codePoint = \H259a
  /\ charData.fgColor = White

\* The sum of channel k (1, 2, 3) over the pixels ps of the block at
\* <<x0, y0>> of the image.
RECURSIVE ChannelSum(_, _, _, _)
ChannelSum(x0, y0, k, ps) ==
  IF ps = {} THEN 0
  ELSE LET p == CHOOSE q \in ps : TRUE
       IN  BlockPixel(image, x0, y0, p)[k] + ChannelSum(x0, y0, k, ps \ {p})

\* The per-channel average, truncated, over the non-empty set ps of pixels.
TruncatedAverage(x0, y0, ps) ==
  [k \in 1..3 |-> ChannelSum(x0, y0, k, ps) \div Cardinality(ps)]

\* The pixels of the upper four rows of a block, and of the lower four.
UpperRows == 0..15

LowerRows == 16..31

\* The CharData of the half block for the block at <<x0, y0>>.
IsHalfBlock(cd, x0, y0) ==
  /\ cd.codePoint = \H2584
  /\ cd.fgColor = TruncatedAverage(x0, y0, LowerRows)
  /\ cd.bgColor = TruncatedAverage(x0, y0, UpperRows)

PixelsOfOnes(pattern) == {p \in 0..31 : (31 - p) \in pattern}

PixelsOfZeros(pattern) == {p \in 0..31 : (31 - p) \notin pattern}

\* The truncated average over ps, and black for no pixels.
BucketColor(x0, y0, ps) ==
  IF ps = {} THEN <<0, 0, 0>> ELSE TruncatedAverage(x0, y0, ps)

\* findCharData has returned for the current block from split mode.
ReturnedSplit == Returned /\ ~direct

\* C13: in split mode the code point returned is that of an entry of the
\* active range, and the colours returned are the truncated averages over
\* the pixels of the set bits (foreground) and of the unset bits
\* (background) of that entry's own pattern, whether the entry matched as
\* it is or complemented, and whatever the threshold mask was.
C13_SplitColoursFromGlyph ==
  ReturnedSplit =>
    \E n \in ActiveRange(flags) :
      /\ At(n + 1) = charData.codePoint
      /\ At(n) = best_pattern
      /\ charData.fgColor = BucketColor(x, y, PixelsOfOnes(At(n)))
      /\ charData.bgColor = BucketColor(x, y, PixelsOfZeros(At(n)))

\* A split block matched against the complement of an entry that differs
\* from the threshold mask and from its complement, with colours that are
\* not the averages over the mask.
C13_Witness ==
  /\ ReturnedSplit
  /\ inverted
  /\ best_diff > 0
  /\ best_pattern # bits /\ Not(best_pattern) # bits
  /\ PixelsOfOnes(best_pattern) # {}
  /\ charData.fgColor # BucketColor(x, y, PixelsOfOnes(bits))
  /\ charData.fgColor # BucketColor(x, y, PixelsOfZeros(bits))

\* createCharData has returned for the current block, and the pattern it was
\* called with: the lower half with FLAG_NOOPT, best_pattern in split mode.
CreateReturned == pc = "emit" /\ (FLAG_NOOPT \in flags \/ ~direct)

PatternPassed == IF FLAG_NOOPT \in flags THEN W(\H0000, \Hffff) ELSE best_pattern

\* The entries of the dictionary that are no end markers.
GlyphEntries == StandardRange \cup ExtendedRange

\* C14: no glyph of the dictionary has all bits set, and the only glyph
\* with no bit set is the space 0x00a0; when createCharData has returned,
\* its background bucket had pixels, the background is their truncated
\* average, the foreground bucket was empty only for the pattern of the
\* space, the foreground is then (0, 0, 0), and every channel returned is a
\* value of 0..255.
C14_EmptyBucketOnlySpace ==
  /\ \A n \in GlyphEntries :
       /\ At(n) # 0..31
       /\ At(n) = {} => At(n + 1) = \H00a0
  /\ CreateReturned =>
       /\ PixelsOfZeros(PatternPassed) # {}
       /\ charData.bgColor = TruncatedAverage(x, y, PixelsOfZeros(PatternPassed))
       /\ PixelsOfOnes(PatternPassed) = {} =>
            /\ PatternPassed = {}
            /\ charData.codePoint = \H00a0
            /\ charData.fgColor = <<0, 0, 0>>
       /\ \A k \in 1..3 :
            charData.fgColor[k] \in 0..255 /\ charData.bgColor[k] \in 0..255

\* A split block for which the space was matched: the foreground bucket was
\* empty and the foreground is black, the background is not.
C14_Witness ==
  /\ CreateReturned
  /\ FLAG_NOOPT \notin flags
  /\ PatternPassed = {}
  /\ charData.codePoint = \H00a0
  /\ charData.fgColor = <<0, 0, 0>>
  /\ charData.bgColor # <<0, 0, 0>>

\* findCharData has returned for the current block from direct mode.
ReturnedDirect == Returned /\ direct

\* The two representative colours of the current block.
ColorOfA == Unpack(max_count_color_1)

ColorOfB == Unpack(max_count_color_2)

\* The squared Euclidean distance of two colours.
SquaredDistance(c1, c2) ==
  (c1[1] - c2[1]) * (c1[1] - c2[1]) + (c1[2] - c2[2]) * (c1[2] - c2[2])
    + (c1[3] - c2[3]) * (c1[3] - c2[3])

\* colorA is a most frequent colour of the block; colorB is a most frequent
\* one of the other colours, or colorA if there is no other colour.
RepresentativesRanked ==
  LET f == BlockFrequencies
  IN  /\ ColorOfA \in DOMAIN f
      /\ \A c \in DOMAIN f : f[c] <= f[ColorOfA]
      /\ IF DOMAIN f = {ColorOfA} THEN ColorOfB = ColorOfA
         ELSE /\ ColorOfB \in DOMAIN f \ {ColorOfA}
              /\ \A c \in DOMAIN f \ {ColorOfA} : f[c] <= f[ColorOfB]

\* The winning comparison of the search used the complement of the entry.
WonByComplement ==
  best_diff < 8 /\ Cardinality(Xor(Not(best_pattern), bits)) = best_diff

\* C15: in direct mode colorA is the most frequent colour and colorB the
\* second most frequent (colorA if there is none); the bit of a pixel is 1
\* exactly when the pixel is strictly nearer to colorB than to colorA; the
\* CharData returned has background colorA and foreground colorB when the
\* entry won as it is, and the two swapped when its complement won; both
\* colours occur in the block.
C15_DirectMaskAndColours ==
  ReturnedDirect =>
    /\ RepresentativesRanked
    /\ \A p \in 0..31 :
         (31 - p) \in bits <=>
           SquaredDistance(BlockPixel(image, x, y, p), ColorOfB)
             < SquaredDistance(BlockPixel(image, x, y, p), ColorOfA)
    /\ inverted <=> WonByComplement
    /\ charData.bgColor = IF WonByComplement THEN ColorOfB ELSE ColorOfA
    /\ charData.fgColor = IF WonByComplement THEN ColorOfA ELSE ColorOfB
    /\ charData.fgColor \in BlockColors
    /\ charData.bgColor \in BlockColors

\* A direct block of more than two colours, with a pixel of a third colour
\* that is not nearer to colorB, for which the complement of an entry won.
C15_Witness ==
  /\ ReturnedDirect
  /\ Cardinality(BlockColors) >= 3
  /\ WonByComplement
  /\ \E p \in 0..31 :
       /\ BlockPixel(image, x, y, p) \notin {ColorOfA, ColorOfB}
       /\ (31 - p) \notin bits
  /\ charData.fgColor = ColorOfA
  /\ charData.bgColor = ColorOfB
  /\ ColorOfA # ColorOfB

\* ------------------------------------------------------------------------
\* Claims about the choice between the colour cube and the grayscale ramp.

\* The index (from 0) of the step nearest to v, the lower index at a tie.
NearestStep(v, STEPS) ==
  LET far(k) == IF STEPS[k + 1] < v THEN v - STEPS[k + 1] ELSE STEPS[k + 1] - v
  IN  CHOOSE k \in 0..(Len(STEPS) - 1) :
        \A j \in 0..(Len(STEPS) - 1) :
          far(k) < far(j) \/ (far(k) = far(j) /\ k <= j)

\* 100 times the error of the colour q for the colour c, with the weights
\* 0.30, 0.59 and 0.11.
WeightedSquaredError(q, c) ==
  30 * (q[1] - c[1]) * (q[1] - c[1]) + 59 * (q[2] - c[2]) * (q[2] - c[2])
    + 11 * (q[3] - c[3]) * (q[3] - c[3])

\* The two candidates for the colour c: the cube steps nearest to its
\* channels, and the grayscale step nearest to its rounded luma.
CubeSteps(c) == [k \in 1..3 |-> NearestStep(c[k], COLOR_STEPS)]

CubeColor(c) == [k \in 1..3 |-> COLOR_STEPS[CubeSteps(c)[k] + 1]]

GrayStep(c) == NearestStep(gray(c[1], c[2], c[3], fp), GRAYSCALE_STEPS)

GrayColor(c) == [k \in 1..3 |-> GRAYSCALE_STEPS[GrayStep(c) + 1]]

\* emitTermColor has returned a palette escape for a colour of 0..255 per
\* channel.
PaletteEmitted ==
  /\ pc = "emitted"
  /\ FLAG_MODE_256 \in flags
  /\ \A k \in 1..3 : rgb[k] \in 0..255

\* C16: for a colour of 0..255 per channel the palette index emitted is the
\* cube index 16 + 36 rIdx + 6 gIdx + bIdx exactly when the weighted error of
\* the cube colour is strictly lower than that of the grayscale step, and
\* 232 + grayIdx otherwise, also when the two errors are equal.
C16_CubeIffStrictlyLower ==
  PaletteEmitted =>
    escape.args =
      IF WeightedSquaredError(CubeColor(rgb), rgb)
           < WeightedSquaredError(GrayColor(rgb), rgb)
      THEN <<16 + 36 * CubeSteps(rgb)[1] + 6 * CubeSteps(rgb)[2]
               + CubeSteps(rgb)[3]>>
      ELSE <<232 + GrayStep(rgb)>>

\* The colour (1, 59, 74): the cube colour (0, 95, 95) and the gray 38 have
\* the same weighted error 813.45, and the cube index 23 is emitted.
C16_Witness ==
  /\ PaletteEmitted
  /\ rgb = <<1, 59, 74>>
  /\ CubeColor(rgb) = <<0, 95, 95>>
  /\ GrayColor(rgb) = <<38, 38, 38>>
  /\ WeightedSquaredError(CubeColor(rgb), rgb) = 81345
  /\ WeightedSquaredError(GrayColor(rgb), rgb) = 81345
  /\ escape.args = <<23>>

\* ------------------------------------------------------------------------
\* Claims about the colours the terminal holds while the glyphs are written.

\* The terminal holds no colour: nothing was written yet, or the last thing
\* written was a format reset.
NoColors == [bg |-> <<>>, fg |-> <<>>]

\* The colours the terminal holds after the first k elements of the output:
\* an escape with 48 sets the background, one with 38 the foreground, a
\* format reset clears both, a glyph changes nothing.
RECURSIVE Terminal(_)
Terminal(k) ==
  IF k = 0 THEN NoColors
  ELSE LET t == Terminal(k - 1)
           e == out[k]
       IN  IF "reset" \in DOMAIN e THEN NoColors
           ELSE IF "sel" \in DOMAIN e
             THEN (IF e.sel = 48 THEN [t EXCEPT !.bg = e] ELSE [t EXCEPT !.fg = e])
           ELSE t

\* The position in the output of the glyph of cell n.
GlyphPosition(n) ==
  CHOOSE k \in DOMAIN out :
    /\ "utf8" \in DOMAIN out[k]
    /\ Cardinality({j \in 1..k : "utf8" \in DOMAIN out[j]}) = n

\* The escapes the colours of cell n produce.
OwnColors(n) ==
  LET cd == cells[n].charData
  IN  [bg |-> emitTermColor(flags \cup {FLAG_BG}, cd.bgColor[1], cd.bgColor[2],
                            cd.bgColor[3], fp),
       fg |-> emitTermColor(flags \cup {FLAG_FG}, cd.fgColor[1], cd.fgColor[2],
                            cd.fgColor[3], fp)]

\* C17: when the glyph of a cell is written the terminal holds the background
\* and the foreground that the escapes of the cell's own bgColor and fgColor
\* set, so no glyph follows a format reset before both colours were set
\* again, and the first cell of a row writes both escapes whatever the last
\* cell of the row before it was.
C17_TerminalHoldsCellColours ==
  /\ Cardinality({k \in DOMAIN out : "utf8" \in DOMAIN out[k]}) = Len(cells)
  /\ \A n \in DOMAIN cells :
       /\ out[GlyphPosition(n)] = Glyph(cells[n].charData.codePoint)
       /\ Terminal(GlyphPosition(n)) = OwnColors(n)
       /\ Terminal(GlyphPosition(n)).bg # <<>>
       /\ Terminal(GlyphPosition(n)).fg # <<>>
       /\ cells[n].x0 = 0 =>
            /\ GlyphPosition(n) >= 3
            /\ out[GlyphPosition(n) - 2] = OwnColors(n).bg
            /\ out[GlyphPosition(n) - 1] = OwnColors(n).fg

\* printImage has returned in 256-colour mode for two rows of two cells: a
\* cell inside a row wrote its glyph only, the terminal still holding the
\* colours of the cell before it, and the first cell of the second row has
\* the colours of the last cell of the first row and follows the format
\* reset with both escapes.
C17_Witness ==
  /\ pc = "done"
  /\ FLAG_MODE_256 \in flags
  /\ Len(cells) = 4
  /\ cells[2].written = <<Glyph(cells[2].charData.codePoint)>>
  /\ Terminal(GlyphPosition(2)) = OwnColors(1)
  /\ cells[3].x0 = 0
  /\ cells[3].charData.bgColor = cells[2].charData.bgColor
  /\ cells[3].charData.fgColor = cells[2].charData.fgColor
  /\ out[GlyphPosition(3) - 3] = Reset
  /\ Terminal(GlyphPosition(3) - 3) = NoColors
  /\ Terminal(GlyphPosition(3)) = OwnColors(3)

====
